---------------------------- MODULE Spec2Model ----------------------------
(***************************************************************************)
(* Prediction-tournament backend (src/server.js).                          *)
(*                                                                         *)
(* src/server.js holds two builds of the server one after the other: the   *)
(* Postgres build (lines 1-1083, pg Pool, async/await, one pooled client   *)
(* and one BEGIN..COMMIT per request) and the SQLite build (lines          *)
(* 1084-1695, one sqlite3 Database handle shared by every request,         *)
(* callback chains).  The variable backend says which build runs.          *)
(*                                                                         *)
(* Postgres build.  Every statement of a request is one step.  The store   *)
(* runs at its default isolation level READ COMMITTED: a SELECT sees what  *)
(* is committed when it runs, an UPDATE locks the row until the end of the *)
(* transaction, waits for a row locked by another transaction and then     *)
(* works on the row's latest committed version.  A transaction's writes    *)
(* are therefore kept with the request (w, paid) and reach db at COMMIT;   *)
(* because the rows are locked in between, that is the value the UPDATE    *)
(* statements computed.  db is the committed database.                     *)
(*                                                                         *)
(* SQLite build.  There is one connection, so a transaction is a property  *)
(* of the connection, not of a request: db is the database as the          *)
(* connection sees it, snap is the image ROLLBACK returns to (NoSnap when  *)
(* no transaction is open).  Statements of other requests issued while a   *)
(* transaction is open run inside it.                                      *)
(***************************************************************************)
EXTENDS Integers, FiniteSets, Sequences, Bags, TLC

VARIABLES backend, db, snap, req, out, now, nreq

vars == <<backend, db, snap, req, out, now, nreq>>

(* ----------------------------- bounds --------------------------------- *)

\* requests (Enter, Resolve, ClaimFree, sweep run, admin call) started in a run
MaxRequests == 2

\* clock ticks in a run
MaxTicks == 1

\* hours per clock tick
TickHours == 24

Backends == {"pg", "sqlite"}
Users == {"u1", "u2"}
Tourns == {"t1", "t2"}
Reqs == {"r1", "r2"}
Options == {"A", "B"}
\* a tournament id no row of the tournaments table has
Absent == "t0"

\* values an administrative update may carry (NULL leaves the column alone)
NULL == -1
UpdFees == {NULL, 100}
UpdMax == {NULL, 1}
\* option lists an administrative update may carry (Unset: the request body
\* has no options, the column is left alone)
Unset == <<"undefined">>
UpdOptions == {<<"B">>}

\* page and pageSize parameters of a listing request
Pages == {NULL, 2}
PageSizes == {NULL, 1}

(* ------------------------- program constants -------------------------- *)

RegisterPoints == 1000
pointsToAdd == 500
cooldownHours == 24
DEFAULT_PAGE_SIZE == 20
MAX_PAGE_SIZE == 100

NoAnswer == "null"
\* snap is the empty set, or holds the one image the open transaction began with
NoSnap == {}

(* ------------------------------ the store ----------------------------- *)

\* the lists of labels a tournament's options can be
LabelLists == {<<>>} \cup [1..1 -> Options] \cup [1..2 -> Options]

\* the elements of a JSON array of strings: "A","B"
RECURSIVE Elements(_)
Elements(l) ==
    IF Len(l) = 0 THEN ""
    ELSE IF Len(l) = 1 THEN "\"" \o l[1] \o "\""
    ELSE "\"" \o l[1] \o "\"," \o Elements(Tail(l))

\* JSON.stringify(options) of a list of labels: the text ["A","B"]
JSONstringify(l) == "[" \o Elements(l) \o "]"

\* JSON.parse(t.options): the list of labels whose JSON text is s
JSONparse(s) == CHOOSE l \in LabelLists : JSONstringify(l) = s

\* a users row never registered
NoUser == [exists |-> FALSE, points |-> 0, won |-> 0, total |-> 0, lastClaim |-> NULL]

\* the users row INSERT INTO users (..., points) VALUES (..., 1000) creates
NewUser == [exists |-> TRUE, points |-> RegisterPoints, won |-> 0, total |-> 0,
            lastClaim |-> NULL]

\* a tournaments row as inserted: prize_pool and current_participants default to
\* 0, options holds JSON.stringify(options) of the list opts supplied
NewTournament(st, opts, fee, max, start, end) ==
    [status |-> st, fee |-> fee, max |-> max, cnt |-> 0, pool |-> 0,
     ans |-> NoAnswer, start |-> start, end |-> end,
     options |-> JSONstringify(opts)]

\* a participants row
Row(t, u, p, paid) == [t |-> t, u |-> u, p |-> p, paid |-> paid]

\* number of rows of bag B among the distinct rows S
RECURSIVE CountIn(_, _)
CountIn(S, B) ==
    IF S = {} THEN 0
    ELSE LET x == CHOOSE y \in S : TRUE
         IN CopiesIn(x, B) + CountIn(S \ {x}, B)

\* sum of points_paid over the rows of bag B among the distinct rows S
RECURSIVE SumPaidIn(_, _)
SumPaidIn(S, B) ==
    IF S = {} THEN 0
    ELSE LET x == CHOOSE y \in S : TRUE
         IN x.paid * CopiesIn(x, B) + SumPaidIn(S \ {x}, B)

\* SELECT COUNT(*) FROM participants WHERE tournament_id = t
RowsOf(d, t) == CountIn({x \in BagToSet(d.parts) : x.t = t}, d.parts)

\* SELECT SUM(points_paid) FROM participants WHERE tournament_id = t
PaidInto(d, t) == SumPaidIn({x \in BagToSet(d.parts) : x.t = t}, d.parts)

\* SELECT id FROM participants WHERE tournament_id = t AND user_id = u (row count)
ExistingRows(d, t, u) ==
    CountIn({x \in BagToSet(d.parts) : x.t = t /\ x.u = u}, d.parts)

\* SELECT SUM(points_paid) FROM participants WHERE user_id = u
PaidBy(d, u) == SumPaidIn({x \in BagToSet(d.parts) : x.u = u}, d.parts)

\* the winners query: per user, the rows of t whose prediction is ans
WinnerRows(d, t, ans) ==
    [u \in Users |->
        CountIn({x \in BagToSet(d.parts) : x.t = t /\ x.u = u /\ x.p = ans}, d.parts)]

RECURSIVE SumOver(_, _)
SumOver(S, f) ==
    IF S = {} THEN 0
    ELSE LET x == CHOOSE y \in S : TRUE IN f[x] + SumOver(S \ {x}, f)

\* a prize that is the whole pool
PrizeWholePool(pool, n) == pool

\* Math.floor(prize_pool / winners.rows.length)
PrizePerWinner(pool, n) == pool \div n

(* --------------------------- the statements --------------------------- *)

\* a lookup that leaves out the status filter
LookupAnyStatus(d, t, u) == t \in Tourns /\ d.users[u].exists

\* the rows of Enter's first SELECT: the tournament joined with the user,
\* WHERE t.id = $1 AND t.status = 'active'
LookupFound(d, t, u) ==
    t \in Tourns /\ d.tourn[t].status = "active" /\ d.users[u].exists

\* the checks without the capacity check
EnterCheckNoCapacity(d, t, u) ==
    IF ~LookupFound(d, t, u) THEN "Tournament not found or not active"
    ELSE IF d.users[u].points < d.tourn[t].fee THEN "Insufficient points"
    ELSE "ok"

\* the checks with the capacity check ahead of the balance check
EnterCheckFullFirst(d, t, u) ==
    IF ~LookupFound(d, t, u) THEN "Tournament not found or not active"
    ELSE IF d.tourn[t].cnt >= d.tourn[t].max THEN "Tournament full"
    ELSE IF d.users[u].points < d.tourn[t].fee THEN "Insufficient points"
    ELSE "ok"

\* Enter's lookup and the two checks that follow it
EnterCheck(d, t, u) ==
    IF ~LookupFound(d, t, u) THEN "Tournament not found or not active"
    ELSE IF d.users[u].points < d.tourn[t].fee THEN "Insufficient points"
    ELSE IF d.tourn[t].cnt >= d.tourn[t].max THEN "Tournament full"
    ELSE "ok"

\* a debit that charges the fee twice
DebitTwice(d, u, fee, inc) ==
    [d EXCEPT !.users[u].points = @ - 2 * fee, !.users[u].total = @ + inc]

\* UPDATE users SET points = points - fee [, total_tournaments + 1] WHERE id = u
Debit(d, u, fee, inc) ==
    [d EXCEPT !.users[u].points = @ - fee, !.users[u].total = @ + inc]

\* an insert that records no payment
InsertUnpaid(d, t, u, p, fee) ==
    [d EXCEPT !.parts = @ (+) SetToBag({Row(t, u, p, 0)})]

\* INSERT INTO participants (tournament_id, user_id, prediction, points_paid)
InsertParticipant(d, t, u, p, fee) ==
    [d EXCEPT !.parts = @ (+) SetToBag({Row(t, u, p, fee)})]

\* a tournament update that forgets the participant counter
BumpPoolOnly(d, t, fee) ==
    [d EXCEPT !.tourn[t].pool = @ + fee]

\* a tournament update that adds the fee the row holds now, not the fee read
BumpCurrentFee(d, t, fee) ==
    [d EXCEPT !.tourn[t].cnt = @ + 1, !.tourn[t].pool = @ + d.tourn[t].fee]

\* UPDATE tournaments SET current_participants + 1, prize_pool + fee WHERE id = t
BumpTournament(d, t, fee) ==
    [d EXCEPT !.tourn[t].cnt = @ + 1, !.tourn[t].pool = @ + fee]

\* a status update that does not record the answer
SetResolvedOnly(d, t, ans) ==
    [d EXCEPT !.tourn[t].status = "resolved"]

\* a status update that also clears the participants table
SetResolvedPurging(d, t, ans) ==
    [d EXCEPT !.tourn[t].status = "resolved", !.tourn[t].ans = ans, !.parts = EmptyBag]

\* UPDATE tournaments SET status = 'resolved', correct_answer = ans WHERE id = t
SetResolved(d, t, ans) ==
    [d EXCEPT !.tourn[t].status = "resolved", !.tourn[t].ans = ans]

\* a payout that takes what it pays out of the tournament's prize_pool
CreditFromPool(d, t, u, prize, k) ==
    [d EXCEPT !.users[u].points = @ + k * prize, !.users[u].won = @ + k,
              !.credited[t] = @ + k * prize, !.got[u] = @ + k * prize,
              !.tourn[t].pool = @ - k * prize]

\* UPDATE users SET points + prize, won_tournaments + 1 WHERE id = u, run k times
\* for tournament t (credited[t] accumulates what settlement has paid out of t,
\* got[u] what settlement has paid to u)
Credit(d, t, u, prize, k) ==
    [d EXCEPT !.users[u].points = @ + k * prize, !.users[u].won = @ + k,
              !.credited[t] = @ + k * prize, !.got[u] = @ + k * prize]

\* a claim that leaves last_claim_date alone
ClaimUpdateNoStamp(d, u, t0) ==
    [d EXCEPT !.users[u].points = @ + pointsToAdd, !.claims[u] = @ + 1]

\* a claim that writes the balance it computed from the registration balance
ClaimUpdateAbsolute(d, u, t0) ==
    [d EXCEPT !.users[u].points = RegisterPoints + pointsToAdd,
              !.users[u].lastClaim = t0, !.claims[u] = @ + 1]

\* UPDATE users SET points + 500, last_claim_date = NOW() WHERE id = u
\* (claims[u] counts the claims of u that ran this UPDATE)
ClaimUpdate(d, u, t0) ==
    [d EXCEPT !.users[u].points = @ + pointsToAdd, !.users[u].lastClaim = t0,
              !.claims[u] = @ + 1]

\* a start sweep that takes closed tournaments as well as pending ones
SweepStartOrClosed(d, at) ==
    {t \in Tourns : d.tourn[t].status \in {"pending", "closed"} /\ d.tourn[t].start <= at}

\* a start sweep without the status filter
SweepStartAny(d, at) == {t \in Tourns : d.tourn[t].status # "active" /\ d.tourn[t].start <= at}

\* UPDATE tournaments SET status = 'active' WHERE status = 'pending' AND start_time <= at
SweepStartRows(d, at) == {t \in Tourns : d.tourn[t].status = "pending" /\ d.tourn[t].start <= at}

\* a close sweep that takes resolved tournaments as well as active ones
SweepCloseOrResolved(d, at) ==
    {t \in Tourns : d.tourn[t].status \in {"active", "resolved"} /\ d.tourn[t].end <= at}

\* UPDATE tournaments SET status = 'closed' WHERE status = 'active' AND end_time <= at
SweepCloseRows(d, at) == {t \in Tourns : d.tourn[t].status = "active" /\ d.tourn[t].end <= at}

SetStatus(d, S, st) ==
    [d EXCEPT !.tourn = [t \in Tourns |-> IF t \in S THEN [@[t] EXCEPT !.status = st]
                                          ELSE @[t]]]

\* the two statements of one run of the sweep for the time at
SweptOnce(d, at) ==
    LET s == SetStatus(d, SweepStartRows(d, at), "active")
    IN SetStatus(s, SweepCloseRows(s, at), "closed")

\* UPDATE tournaments SET options = COALESCE(JSON.stringify(opts), options),
\*                        entry_fee = COALESCE(fee, entry_fee),
\*                        max_participants = COALESCE(max, max_participants)
UpdateEvent(d, t, fee, max, opts) ==
    [d EXCEPT !.tourn[t].fee = IF fee = NULL THEN @ ELSE fee,
              !.tourn[t].max = IF max = NULL THEN @ ELSE max,
              !.tourn[t].options = IF opts = Unset THEN @ ELSE JSONstringify(opts)]

\* the tournaments in the order of ORDER BY created_at DESC (t2 is the newer)
ByCreatedDesc == <<"t2", "t1">>

\* a listing query without the status filter
ListedAnyStatus(d) == ByCreatedDesc

\* SELECT ... FROM tournaments WHERE status IN ('pending', 'active')
\* ORDER BY created_at DESC
Listed(d) ==
    LET Open(t) == d.tourn[t].status \in {"pending", "active"}
    IN SelectSeq(ByCreatedDesc, Open)

\* parseInt(req.query.page) || 1
PageNumber(page) == IF page = NULL THEN 1 ELSE page

\* Math.min(parseInt(req.query.pageSize) || DEFAULT_PAGE_SIZE, MAX_PAGE_SIZE)
PageSize(size) ==
    LET n == IF size = NULL THEN DEFAULT_PAGE_SIZE ELSE size
    IN IF n < MAX_PAGE_SIZE THEN n ELSE MAX_PAGE_SIZE

\* LIMIT size OFFSET (page - 1) * size
PageOf(s, page, size) ==
    LET first == (PageNumber(page) - 1) * PageSize(size) + 1
        last == PageNumber(page) * PageSize(size)
    IN SubSeq(s, first, IF last < Len(s) THEN last ELSE Len(s))

\* rows.map(t => ({...t, options: JSON.parse(t.options)}))
FormatTournaments(d, s) ==
    [i \in 1..Len(s) |-> [t |-> s[i], options |-> JSONparse(d.tourn[s[i]].options)]]

(* ---------------------------- the requests ---------------------------- *)

NoCount == [u \in Users |-> 0]

\* a handler slot with no request in flight
Idle ==
    [op |-> "none", pc |-> "done", u |-> "-", t |-> "-", p |-> "-", amt |-> 0,
     w |-> 0, todo |-> NoCount, paid |-> NoCount, at |-> 0, free |-> 0, cap |-> 0,
     seen |-> "-", short |-> FALSE, had |-> FALSE, err |-> "ok", failed |-> "-"]

\* no response left the server in the step just taken (res then tells how a
\* handler ended without one, rel how often it had released its client)
NoOut == [op |-> "none", u |-> "-", t |-> "-", p |-> "-", res |-> "none", amt |-> 0,
          w |-> 0, free |-> 0, cap |-> 0, seen |-> "-", short |-> FALSE, had |-> FALSE,
          failed |-> "-", page |-> NULL, size |-> NULL, list |-> <<>>, rel |-> 0]

\* the response res to request q (res.json / res.status(...).json); failed is
\* the statement of q that reported an error, "-" when none did; rel is the
\* number of client.release() calls q has made when it ends (Enter and Resolve
\* of the Postgres build take a client from the pool: one call next to every
\* response of Enter, one in the finally block of Resolve)
Response(q, res) ==
    [op |-> q.op, u |-> q.u, t |-> q.t, p |-> q.p, res |-> res, amt |-> q.amt,
     w |-> q.w, free |-> q.free, cap |-> q.cap, seen |-> q.seen, short |-> q.short,
     had |-> q.had, failed |-> q.failed, page |-> NULL, size |-> NULL, list |-> <<>>,
     rel |-> IF backend = "pg" /\ q.op \in {"enter", "resolve"} THEN 1 ELSE 0]

\* a new Enter(u, t, p) as it arrives at database d: the fee and the seats its
\* lookup reads, and what d holds at that moment (seen: the status of t, short:
\* the balance is below the fee, had: u already has a participants row for t)
Arrived(d, u, t, p) ==
    IF t \in Tourns
    THEN [Idle EXCEPT !.op = "enter", !.u = u, !.t = t, !.p = p,
                      !.amt = d.tourn[t].fee,
                      !.free = d.tourn[t].max - d.tourn[t].cnt,
                      !.cap = d.tourn[t].max,
                      !.seen = d.tourn[t].status,
                      !.short = d.users[u].points < d.tourn[t].fee,
                      !.had = ExistingRows(d, t, u) > 0]
    ELSE [Idle EXCEPT !.op = "enter", !.u = u, !.t = t, !.p = p, !.seen = "absent"]

Free(r) == req[r].pc = "done"

\* the request takes the first free handler slot (slots are interchangeable)
CanStart(r) ==
    /\ Free(r) /\ nreq < MaxRequests
    /\ \A q \in Reqs : Free(q) => (q = r \/ r = "r1")

\* Starting points, each a state the server reaches:
\*   "fresh"    u1 has registered; an admin has created t1 (fee 600, one seat) and
\*              t2 (fee 600, two seats); both are active.
\*   "entered"  u1 and u2 have registered and entered t2 (three seats) with
\*              prediction "A"; t1 is still pending.  On Postgres u1 paid 75 and,
\*              after an admin update of the fee to 100, u2 paid 100; the SQLite
\*              build has no fee update, both paid 75 and Enter counted
\*              total_tournaments.
\*   "racing"   (Postgres) as "fresh", but u1 has sent Enter(t2, "A") twice: one
\*              request has committed, the other ran its participation check
\*              before that commit and is about to run its debit.
Scenes == {"fresh", "entered", "racing"}

\* the option lists the tournaments were created with
CreatedOptions(t) == IF t = "t1" THEN <<"A", "B">> ELSE <<"B", "A">>

SceneUsers(b, sc) ==
    IF sc = "fresh" THEN [u \in Users |-> IF u = "u1" THEN NewUser ELSE NoUser]
    ELSE IF sc = "racing"
    THEN [u \in Users |-> IF u = "u1" THEN [NewUser EXCEPT !.points = RegisterPoints - 600]
                          ELSE NoUser]
    ELSE [u \in Users |->
            [NewUser EXCEPT
               !.points = IF b = "pg" /\ u = "u2" THEN RegisterPoints - 100
                          ELSE RegisterPoints - 75,
               !.total = IF b = "pg" THEN 0 ELSE 1]]

SceneTourn(b, sc) ==
    IF sc = "fresh"
    THEN [t \in Tourns |-> IF t = "t1" THEN NewTournament("active", CreatedOptions(t), 600, 1, 0, 24)
                           ELSE NewTournament("active", CreatedOptions(t), 600, 2, 0, 24)]
    ELSE IF sc = "racing"
    THEN [t \in Tourns |-> IF t = "t1" THEN NewTournament("active", CreatedOptions(t), 600, 1, 0, 24)
                           ELSE [NewTournament("active", CreatedOptions(t), 600, 2, 0, 24)
                                   EXCEPT !.cnt = 1, !.pool = 600]]
    ELSE [t \in Tourns |->
            IF t = "t1" THEN NewTournament("pending", CreatedOptions(t), 600, 1, 24, 24)
            ELSE [NewTournament("active", CreatedOptions(t), IF b = "pg" THEN 100 ELSE 75, 3, 0, 24)
                    EXCEPT !.cnt = 2, !.pool = IF b = "pg" THEN 175 ELSE 150]]

SceneParts(b, sc) ==
    IF sc = "fresh" THEN EmptyBag
    ELSE IF sc = "racing" THEN SetToBag({Row("t2", "u1", "A", 600)})
    ELSE SetToBag({Row("t2", "u1", "A", 75)})
         (+) SetToBag({Row("t2", "u2", "A", IF b = "pg" THEN 100 ELSE 75)})

SceneReq(sc) ==
    [r \in Reqs |->
        IF sc = "racing" /\ r = "r1"
        THEN [Idle EXCEPT !.op = "enter", !.pc = "debit", !.u = "u1", !.t = "t2",
                          !.p = "A", !.amt = 600, !.free = 2, !.cap = 2,
                          !.seen = "active", !.short = FALSE, !.had = FALSE]
        ELSE Idle]

Init ==
    /\ backend \in Backends
    /\ \E sc \in Scenes :
          /\ sc = "racing" => backend = "pg"
          /\ db = [users |-> SceneUsers(backend, sc),
                   tourn |-> SceneTourn(backend, sc),
                   parts |-> SceneParts(backend, sc),
                   credited |-> [t \in Tourns |-> 0],
                   got |-> NoCount, claims |-> NoCount]
          /\ req = SceneReq(sc)
          /\ nreq = Cardinality({r \in Reqs : SceneReq(sc)[r].op # "none"})
    /\ snap = NoSnap
    /\ out = NoOut
    /\ now = 0

(* ------------------- Postgres build: row locks, commit ---------------- *)

\* request q has run an UPDATE on users row u in its open transaction
HoldsUser(q, u) ==
    \/ req[q].op = "enter" /\ req[q].u = u /\ req[q].w >= 1
    \/ req[q].op = "resolve" /\ req[q].paid[u] > 0

\* request q has run an UPDATE on tournaments row t in its open transaction
HoldsTourn(q, t) ==
    \/ req[q].op = "enter" /\ req[q].t = t /\ req[q].w >= 3
    \/ req[q].op = "resolve" /\ req[q].t = t /\ req[q].w >= 1

\* an UPDATE of r on the row has to wait: another open transaction holds its lock
UserLocked(r, u) == backend = "pg" /\ \E q \in Reqs \ {r} : HoldsUser(q, u)

TournLocked(r, t) == backend = "pg" /\ \E q \in Reqs \ {r} : HoldsTourn(q, t)

\* the database after the write statements request q has run so far
\* (inc: total_tournaments is counted by the SQLite build only)
EnterWrites(d, q, inc) ==
    LET d1 == IF q.w >= 1 THEN Debit(d, q.u, q.amt, inc) ELSE d
        d2 == IF q.w >= 2 THEN InsertParticipant(d1, q.t, q.u, q.p, q.amt) ELSE d1
    IN IF q.w >= 3 THEN BumpTournament(d2, q.t, q.amt) ELSE d2

RECURSIVE CreditAll(_, _, _)
CreditAll(d, q, S) ==
    IF S = {} THEN d
    ELSE LET u == CHOOSE x \in S : TRUE
         IN CreditAll(Credit(d, q.t, u, q.amt, q.paid[u]), q, S \ {u})

ResolveWrites(d, q) ==
    LET d1 == IF q.w >= 1 THEN SetResolved(d, q.t, q.p) ELSE d
    IN CreditAll(d1, q, Users)

\* what COMMIT makes durable for the transaction of request q
PgCommitted(d, q) ==
    IF q.op = "enter" THEN EnterWrites(d, q, 0) ELSE ResolveWrites(d, q)

\* a rollback that keeps the writes the transaction had run
PgKeepsWrites(d, q) == PgCommitted(d, q)

\* what ROLLBACK leaves of the transaction of request q
PgRolledBack(d, q) == d

\* the error response of request q, one of whose statements threw: the catch
\* block does not know which one (w: whether a write had run before it)
PgFailure(q, msg) ==
    Response([q EXCEPT !.failed = "statement", !.w = IF q.w > 0 THEN 1 ELSE 0], msg)

(* --------------------- Postgres build: Enter -------------------------- *)

\* BEGIN; SELECT t.*, u.points ...; the balance and the capacity check
PgEnterLookup(r, u, t, p) ==
    /\ backend = "pg" /\ CanStart(r) /\ db.users[u].exists
    /\ LET c == EnterCheck(db, t, u)
           q == Arrived(db, u, t, p)
       IN IF c = "ok"
          THEN /\ req' = [req EXCEPT ![r] = [q EXCEPT !.pc = "existing"]]
               /\ out' = NoOut
          ELSE /\ req' = req
               /\ out' = Response(q, c)
    /\ nreq' = nreq + 1
    /\ UNCHANGED <<backend, db, snap, now>>

\* an Enter that goes on to its debit whatever the participation check finds
PgSkipExisting(r) ==
    /\ backend = "pg" /\ req[r].op = "enter" /\ req[r].pc = "existing"
    /\ req' = [req EXCEPT ![r].pc = "debit"]
    /\ out' = NoOut
    /\ UNCHANGED <<backend, db, snap, now, nreq>>

\* SELECT id FROM participants WHERE tournament_id = $1 AND user_id = $2
PgEnterExisting(r) ==
    /\ backend = "pg" /\ req[r].op = "enter" /\ req[r].pc = "existing"
    /\ IF ExistingRows(db, req[r].t, req[r].u) > 0
       THEN /\ req' = [req EXCEPT ![r] = Idle]
            /\ out' = Response(req[r], "Already participated")
       ELSE /\ req' = [req EXCEPT ![r].pc = "debit"]
            /\ out' = NoOut
    /\ UNCHANGED <<backend, db, snap, now, nreq>>

\* UPDATE users SET points = points - $1 WHERE id = $2
PgEnterDebit(r) ==
    /\ backend = "pg" /\ req[r].op = "enter" /\ req[r].pc = "debit"
    /\ ~UserLocked(r, req[r].u)
    /\ req' = [req EXCEPT ![r].pc = "insert", ![r].w = 1]
    /\ out' = NoOut
    /\ UNCHANGED <<backend, db, snap, now, nreq>>

\* INSERT INTO participants ...
PgEnterInsert(r) ==
    /\ backend = "pg" /\ req[r].op = "enter" /\ req[r].pc = "insert"
    /\ req' = [req EXCEPT ![r].pc = "tupdate", ![r].w = 2]
    /\ out' = NoOut
    /\ UNCHANGED <<backend, db, snap, now, nreq>>

\* UPDATE tournaments SET current_participants + 1, prize_pool + $1 WHERE id = $2
PgEnterTupdate(r) ==
    /\ backend = "pg" /\ req[r].op = "enter" /\ req[r].pc = "tupdate"
    /\ ~TournLocked(r, req[r].t)
    /\ req' = [req EXCEPT ![r].pc = "commit", ![r].w = 3]
    /\ out' = NoOut
    /\ UNCHANGED <<backend, db, snap, now, nreq>>

\* COMMIT; client.release(); res.json({success: true, ...})
PgCommit(r) ==
    /\ backend = "pg" /\ req[r].op \in {"enter", "resolve"} /\ req[r].pc = "commit"
    /\ db' = PgCommitted(db, req[r])
    /\ req' = [req EXCEPT ![r] = Idle]
    /\ out' = Response(req[r], "ok")
    /\ UNCHANGED <<backend, snap, now, nreq>>

\* the statements of an open transaction that can throw
PgStatements == {"existing", "debit", "insert", "tupdate", "winners", "pay", "commit"}

\* a statement throws (storage failure): catch (err) { ROLLBACK; release; error response }
PgFail(r) ==
    /\ backend = "pg" /\ req[r].op \in {"enter", "resolve"}
    /\ req[r].pc \in PgStatements
    /\ db' = PgRolledBack(db, req[r])
    /\ req' = [req EXCEPT ![r] = Idle]
    /\ out' = PgFailure(req[r], "storage failure")
    /\ UNCHANGED <<backend, snap, now, nreq>>

\* a statement throws and the ROLLBACK of the catch block throws as well (the
\* connection is lost, the store discards the transaction): the rejection
\* leaves the async handler, nothing catches it and no response is sent.
\* Enter's client.release() stands after the ROLLBACK and is not reached,
\* Resolve's stands in finally and runs.  exits: the runtime ends the process
\* on the unhandled rejection, as it does from Node 15 on
PgRollbackFails(r, exits) ==
    /\ backend = "pg" /\ req[r].op \in {"enter", "resolve"}
    /\ req[r].pc \in PgStatements
    /\ db' = PgRolledBack(db, req[r])
    /\ req' = IF exits THEN [q \in Reqs |-> Idle] ELSE [req EXCEPT ![r] = Idle]
    /\ out' = [NoOut EXCEPT
                 !.res = IF exits THEN "process exit" ELSE "unhandled rejection",
                 !.rel = IF req[r].op = "resolve" /\ ~exits THEN 1 ELSE 0]
    /\ UNCHANGED <<backend, snap, now, nreq>>

(* --------------------- Postgres build: Resolve ------------------------ *)

\* BEGIN; UPDATE tournaments SET status = 'resolved', correct_answer = $2 WHERE id = $3
PgResolveStatus(r, t, ans) ==
    /\ backend = "pg" /\ CanStart(r)
    /\ ~TournLocked(r, t)
    /\ req' = [req EXCEPT ![r] =
                 [Idle EXCEPT !.op = "resolve", !.pc = "winners", !.t = t, !.p = ans,
                              !.w = 1]]
    /\ out' = NoOut
    /\ nreq' = nreq + 1
    /\ UNCHANGED <<backend, db, snap, now>>

\* SELECT p.user_id, t.prize_pool, COUNT(*) OVER() ...; prizePerWinner
PgResolveWinners(r) ==
    /\ backend = "pg" /\ req[r].op = "resolve" /\ req[r].pc = "winners"
    /\ LET rows == WinnerRows(db, req[r].t, req[r].p)
           n == SumOver(Users, rows)
       IN req' = [req EXCEPT ![r] =
                    IF n = 0 THEN [@ EXCEPT !.pc = "commit"]
                    ELSE [@ EXCEPT !.pc = "pay", !.todo = rows,
                                   !.amt = PrizePerWinner(db.tourn[req[r].t].pool, n)]]
    /\ out' = NoOut
    /\ UNCHANGED <<backend, db, snap, now, nreq>>

\* one pass of the loop: UPDATE users SET points + prize, won_tournaments + 1
PgResolvePay(r, u) ==
    /\ backend = "pg" /\ req[r].op = "resolve" /\ req[r].pc = "pay"
    /\ req[r].todo[u] > 0
    /\ ~UserLocked(r, u)
    /\ LET todo == [req[r].todo EXCEPT ![u] = @ - 1]
       IN req' = [req EXCEPT ![r].todo = todo, ![r].paid[u] = @ + 1,
                             ![r].pc = IF todo = NoCount THEN "commit" ELSE "pay"]
    /\ out' = NoOut
    /\ UNCHANGED <<backend, db, snap, now, nreq>>

\* r waits for a row lock that q holds
WaitsFor(r, q) ==
    \/ req[r].op = "enter" /\ req[r].pc = "debit" /\ HoldsUser(q, req[r].u)
    \/ req[r].op = "enter" /\ req[r].pc = "tupdate" /\ HoldsTourn(q, req[r].t)
    \/ /\ req[r].op = "resolve" /\ req[r].pc = "pay"
       /\ \A u \in Users : req[r].todo[u] > 0 => HoldsUser(q, u)

\* the store's deadlock detector makes a statement of a lock cycle throw
PgDeadlock(r) ==
    /\ backend = "pg"
    /\ \E q \in Reqs \ {r} : WaitsFor(r, q) /\ WaitsFor(q, r)
    /\ db' = PgRolledBack(db, req[r])
    /\ req' = [req EXCEPT ![r] = Idle]
    /\ out' = PgFailure(req[r], "deadlock detected")
    /\ UNCHANGED <<backend, snap, now, nreq>>

(* ---------------- Postgres build: free claim, admin update ------------ *)

\* a cooldown check that lets every claim through
InCooldownNever(last, t0) == FALSE

\* Math.abs(now - lastClaim) / 36e5 < cooldownHours, for a non-null lastClaim
InCooldown(last, t0) ==
    /\ last # NULL
    /\ (IF t0 >= last THEN t0 - last ELSE last - t0) < cooldownHours

\* SELECT last_claim_date FROM users WHERE id = $1; the cooldown check
PgClaimRead(r, u) ==
    /\ backend = "pg" /\ CanStart(r) /\ db.users[u].exists
    /\ LET q == [Idle EXCEPT !.op = "claim", !.u = u]
       IN IF InCooldown(db.users[u].lastClaim, now)
          THEN /\ req' = req
               /\ out' = Response(q, "Cooldown active")
          ELSE /\ req' = [req EXCEPT ![r] = [q EXCEPT !.pc = "update"]]
               /\ out' = NoOut
    /\ nreq' = nreq + 1
    /\ UNCHANGED <<backend, db, snap, now>>

\* UPDATE users SET points = points + $1, last_claim_date = NOW() WHERE id = $2
PgClaimUpdate(r) ==
    /\ backend = "pg" /\ req[r].op = "claim" /\ req[r].pc = "update"
    /\ ~UserLocked(r, req[r].u)
    /\ db' = ClaimUpdate(db, req[r].u, now)
    /\ req' = [req EXCEPT ![r] = Idle]
    /\ out' = Response(req[r], "ok")
    /\ UNCHANGED <<backend, snap, now, nreq>>

\* PUT /api/admin/events/:id: one UPDATE tournaments ... WHERE id = $11
PgUpdateEvent(t, fee, max, opts) ==
    /\ backend = "pg" /\ nreq < MaxRequests
    /\ fee # NULL \/ max # NULL \/ opts # Unset
    /\ \A q \in Reqs : ~HoldsTourn(q, t)
    /\ db' = UpdateEvent(db, t, fee, max, opts)
    /\ out' = NoOut
    /\ nreq' = nreq + 1
    /\ UNCHANGED <<backend, snap, req, now>>

(* ------------------------- SQLite build ------------------------------- *)
(* One Database handle serves every request.  A handler issues a statement *)
(* and continues in its callback, so the steps are: a callback runs and    *)
(* the statement it issues executes.  db.run('BEGIN TRANSACTION'),         *)
(* db.run('ROLLBACK') and db.run('COMMIT') are given no callback: sqlite3  *)
(* reports a failing statement without callback as an 'error' event on the *)
(* statement, nothing listens for it, and the unhandled event ends the     *)
(* process (SqCrash).  BEGIN fails when a transaction is already open.     *)

\* the image ROLLBACK (or recovery after a crash) returns the database to
RollbackImage == IF snap = NoSnap THEN db ELSE CHOOSE d \in snap : TRUE

\* the process exits: every handler is gone without a response, the open
\* transaction is rolled back when the database is opened again
SqCrash ==
    /\ db' = RollbackImage
    /\ snap' = NoSnap
    /\ req' = [r \in Reqs |-> Idle]
    /\ out' = [NoOut EXCEPT !.res = "process exit"]

\* db.run('ROLLBACK') and the error response of request r
SqRollback(r, msg) ==
    /\ db' = RollbackImage
    /\ snap' = NoSnap
    /\ req' = [req EXCEPT ![r] = Idle]
    /\ out' = Response(req[r], msg)

\* db.serialize: BEGIN TRANSACTION; SELECT t.*, u.points FROM tournaments t, users u ...
\* (fails: the SELECT reports an error, which its callback answers as it answers
\* no row: if (err || !data).  A failing SELECT that would have found no row
\* is answered exactly as a successful one and is not told apart)
SqEnterBegin(r, u, t, p, fails) ==
    /\ backend = "sqlite" /\ CanStart(r) /\ db.users[u].exists
    /\ fails => LookupFound(db, t, u)
    /\ nreq' = nreq + 1
    /\ IF snap # NoSnap THEN ~fails /\ SqCrash
       ELSE /\ snap' = {db}
            /\ db' = db
            /\ req' = [req EXCEPT ![r] =
                         [Arrived(db, u, t, p) EXCEPT
                            !.pc = "lookup",
                            !.err = IF fails THEN "Tournament not found or not active"
                                    ELSE EnterCheck(db, t, u),
                            !.failed = IF fails THEN "lookup" ELSE "-"]]
            /\ out' = NoOut
    /\ UNCHANGED <<backend, now>>

\* callback of the lookup: the three checks, then SELECT id FROM participants ...
\* (fails: the SELECT reports an error; its callback tests only if (existing),
\* so the request goes on as if no row had been found.  A failing SELECT that
\* would have found no row goes on exactly as a successful one and is not
\* told apart)
SqEnterLookup(r, fails) ==
    /\ backend = "sqlite" /\ req[r].op = "enter" /\ req[r].pc = "lookup"
    /\ IF req[r].err # "ok" THEN ~fails /\ SqRollback(r, req[r].err)
       ELSE /\ fails => ExistingRows(db, req[r].t, req[r].u) > 0
            /\ req' = [req EXCEPT ![r].pc = "existing",
                         ![r].err = IF ExistingRows(db, req[r].t, req[r].u) > 0 /\ ~fails
                                    THEN "Already participated" ELSE "ok",
                         ![r].failed = IF fails THEN "existing" ELSE "-"]
            /\ out' = NoOut
            /\ UNCHANGED <<db, snap>>
    /\ UNCHANGED <<backend, now, nreq>>

\* callback of the participation check, then UPDATE users SET points = points - ?,
\* total_tournaments = total_tournaments + 1 (fails: the statement reports an error)
SqEnterExisting(r, fails) ==
    /\ backend = "sqlite" /\ req[r].op = "enter" /\ req[r].pc = "existing"
    /\ IF req[r].err # "ok" THEN ~fails /\ SqRollback(r, req[r].err)
       ELSE /\ db' = IF fails THEN db ELSE Debit(db, req[r].u, req[r].amt, 1)
            /\ req' = [req EXCEPT ![r].pc = "debit",
                         ![r].err = IF fails THEN "Failed to deduct points" ELSE "ok",
                         ![r].failed = IF fails THEN "debit" ELSE @]
            /\ out' = NoOut
            /\ UNCHANGED snap
    /\ UNCHANGED <<backend, now, nreq>>

\* callback of the debit, then INSERT INTO participants ...
SqEnterDebit(r, fails) ==
    /\ backend = "sqlite" /\ req[r].op = "enter" /\ req[r].pc = "debit"
    /\ IF req[r].err # "ok" THEN ~fails /\ SqRollback(r, req[r].err)
       ELSE /\ db' = IF fails THEN db
                     ELSE InsertParticipant(db, req[r].t, req[r].u, req[r].p, req[r].amt)
            /\ req' = [req EXCEPT ![r].pc = "insert",
                         ![r].err = IF fails THEN "Failed to enter tournament" ELSE "ok",
                         ![r].failed = IF fails THEN "insert" ELSE @]
            /\ out' = NoOut
            /\ UNCHANGED snap
    /\ UNCHANGED <<backend, now, nreq>>

\* callback of the insert, then UPDATE tournaments SET current_participants + 1, ...
SqEnterInsert(r, fails) ==
    /\ backend = "sqlite" /\ req[r].op = "enter" /\ req[r].pc = "insert"
    /\ IF req[r].err # "ok" THEN ~fails /\ SqRollback(r, req[r].err)
       ELSE /\ db' = IF fails THEN db ELSE BumpTournament(db, req[r].t, req[r].amt)
            /\ req' = [req EXCEPT ![r].pc = "tupdate",
                         ![r].err = IF fails THEN "Failed to update tournament" ELSE "ok",
                         ![r].failed = IF fails THEN "tupdate" ELSE @]
            /\ out' = NoOut
            /\ UNCHANGED snap
    /\ UNCHANGED <<backend, now, nreq>>

\* db.run('COMMIT') and the success response of request r
SqCommit(r) ==
    /\ db' = db
    /\ snap' = NoSnap
    /\ req' = [req EXCEPT ![r] = Idle]
    /\ out' = Response(req[r], "ok")

\* callback of the tournament update: COMMIT; res.json({success: true, ...})
SqEnterTupdate(r) ==
    /\ backend = "sqlite" /\ req[r].op = "enter" /\ req[r].pc = "tupdate"
    /\ IF req[r].err # "ok" THEN SqRollback(r, req[r].err) ELSE SqCommit(r)
    /\ UNCHANGED <<backend, now, nreq>>

\* db.serialize: BEGIN TRANSACTION; UPDATE tournaments SET status = "resolved", ...
SqResolveBegin(r, t, ans, fails) ==
    /\ backend = "sqlite" /\ CanStart(r)
    /\ nreq' = nreq + 1
    /\ IF snap # NoSnap THEN ~fails /\ SqCrash
       ELSE /\ snap' = {db}
            /\ db' = IF fails THEN db ELSE SetResolved(db, t, ans)
            /\ req' = [req EXCEPT ![r] =
                         [Idle EXCEPT !.op = "resolve", !.pc = "status", !.t = t, !.p = ans,
                                      !.err = IF fails THEN "Failed to resolve tournament"
                                              ELSE "ok",
                                      !.failed = IF fails THEN "status" ELSE "-"]]
            /\ out' = NoOut
    /\ UNCHANGED <<backend, now>>

\* callback of the status update, then the winners query
SqResolveStatus(r, fails) ==
    /\ backend = "sqlite" /\ req[r].op = "resolve" /\ req[r].pc = "status"
    /\ IF req[r].err # "ok" THEN ~fails /\ SqRollback(r, req[r].err)
       ELSE LET rows == WinnerRows(db, req[r].t, req[r].p)
                n == SumOver(Users, rows)
            IN /\ req' = [req EXCEPT ![r].pc = "winners",
                            ![r].err = IF fails THEN "Failed to get winners" ELSE "ok",
                            ![r].failed = IF fails THEN "winners" ELSE "-",
                            ![r].todo = IF fails THEN NoCount ELSE rows,
                            ![r].amt = IF fails \/ n = 0 THEN 0
                                       ELSE PrizePerWinner(db.tourn[req[r].t].pool, n)]
               /\ out' = NoOut
               /\ UNCHANGED <<db, snap>>
    /\ UNCHANGED <<backend, now, nreq>>

RECURSIVE SqCreditAll(_, _, _, _)
SqCreditAll(d, q, S, skip) ==
    IF S = {} THEN d
    ELSE LET u == CHOOSE x \in S : TRUE
             k == IF u \in skip THEN 0 ELSE q.todo[u]
         IN SqCreditAll(Credit(d, q.t, u, q.amt, k), q, S \ {u}, skip)

\* callback of the winners query: no winners: COMMIT; otherwise winners.forEach
\* issues every UPDATE users ... (those for the users in failing report an error,
\* which the callback ignores)
SqResolveWinners(r, failing) ==
    /\ backend = "sqlite" /\ req[r].op = "resolve" /\ req[r].pc = "winners"
    /\ IF req[r].err # "ok" THEN failing = {} /\ SqRollback(r, req[r].err)
       ELSE IF req[r].todo = NoCount THEN failing = {} /\ SqCommit(r)
       ELSE /\ \A u \in failing : req[r].todo[u] > 0
            /\ db' = SqCreditAll(db, req[r], Users, failing)
            /\ req' = [req EXCEPT ![r].pc = "paid", ![r].todo = NoCount,
                                  ![r].failed = IF failing = {} THEN "-" ELSE "pay"]
            /\ out' = NoOut
            /\ UNCHANGED snap
    /\ UNCHANGED <<backend, now, nreq>>

\* callback of the last UPDATE users: COMMIT; res.json({success: true, ...})
SqResolvePaid(r) ==
    /\ backend = "sqlite" /\ req[r].op = "resolve" /\ req[r].pc = "paid"
    /\ SqCommit(r)
    /\ UNCHANGED <<backend, now, nreq>>

\* POST /api/admin/tournaments/:id/start:
\* UPDATE tournaments SET status = "active" WHERE id = ? AND status = "pending"
SqStartTournament(t) ==
    /\ backend = "sqlite" /\ nreq < MaxRequests
    /\ db' = SetStatus(db, {x \in {t} : db.tourn[x].status = "pending"}, "active")
    /\ out' = [NoOut EXCEPT !.op = "start", !.t = t, !.res = "ok"]
    /\ nreq' = nreq + 1
    /\ UNCHANGED <<backend, snap, req, now>>

(* ------------------------- both builds -------------------------------- *)

\* rows an autocommit UPDATE of the sweep would have to wait for
SweepBlocked(S) == backend = "pg" /\ \E t \in S, q \in Reqs : HoldsTourn(q, t)

\* cron: const now = new Date(); UPDATE ... SET status = 'active' WHERE pending ...
SweepRun(r) ==
    /\ ~SweepBlocked(SweepStartRows(db, now))
    /\ db' = SetStatus(db, SweepStartRows(db, now), "active")
    /\ req' = [req EXCEPT ![r] = [Idle EXCEPT !.op = "sweep", !.pc = "close", !.at = now]]
    /\ out' = NoOut
    /\ UNCHANGED <<backend, snap, now>>

\* one run of the sweep among the requests of a bounded run
SweepStart(r) ==
    /\ CanStart(r)
    /\ SweepRun(r)
    /\ nreq' = nreq + 1

\* cron.schedule('* * * * *', ...): the sweep runs again every minute, for ever
CronSweep(r) ==
    /\ Free(r)
    /\ \A q \in Reqs : Free(q) => (q = r \/ r = "r1")
    /\ SweepRun(r)
    /\ UNCHANGED nreq

\* cron: UPDATE ... SET status = 'closed' WHERE status = 'active' AND end_time <= $1
SweepClose(r) ==
    /\ req[r].op = "sweep" /\ req[r].pc = "close"
    /\ ~SweepBlocked(SweepCloseRows(db, req[r].at))
    /\ db' = SetStatus(db, SweepCloseRows(db, req[r].at), "closed")
    /\ req' = [req EXCEPT ![r] = Idle]
    /\ out' = NoOut
    /\ UNCHANGED <<backend, snap, now, nreq>>

\* POST /api/auth/register: INSERT INTO users (..., points) VALUES (..., 1000)
Register(u) ==
    /\ ~db.users[u].exists
    /\ db' = [db EXCEPT !.users[u] = NewUser]
    /\ out' = NoOut
    /\ UNCHANGED <<backend, snap, req, now, nreq>>

\* GET /api/tournaments: the listing query (the Postgres build pages it, the
\* SQLite build returns every row) and the response with the options parsed
GetTournaments(page, size) ==
    /\ backend = "sqlite" => (page = NULL /\ size = NULL)
    /\ out' = [NoOut EXCEPT
                 !.op = "list", !.res = "ok", !.page = page, !.size = size,
                 !.list = FormatTournaments(db, IF backend = "pg"
                                                THEN PageOf(Listed(db), page, size)
                                                ELSE Listed(db))]
    /\ UNCHANGED <<backend, db, snap, req, now, nreq>>

\* the wall clock advances
Tick ==
    /\ now < MaxTicks * TickHours
    /\ now' = now + TickHours
    /\ out' = NoOut
    /\ UNCHANGED <<backend, db, snap, req, nreq>>

(* Every route is registered by the build that runs: a new request of build  *)
(* b takes a free handler slot, a continuation belongs to a request in       *)
(* flight.                                                                   *)

\* the handler slots a new request of build b can take
Slots(b) == {r \in Reqs : backend = b /\ CanStart(r)}

\* the handler slots holding a request of build b in flight
Busy(b) == {r \in Reqs : backend = b /\ ~Free(r)}

\* the tournaments an administrative call of build b can name
AdminCalls(b) == {t \in Tourns : backend = b /\ nreq < MaxRequests}

Next ==
    \/ \E r \in Slots("pg"), u \in Users, t \in Tourns \cup {Absent}, p \in Options :
          PgEnterLookup(r, u, t, p)
    \/ \E r \in Busy("pg") : PgEnterExisting(r)
    \/ \E r \in Busy("pg") : PgEnterDebit(r)
    \/ \E r \in Busy("pg") : PgEnterInsert(r)
    \/ \E r \in Busy("pg") : PgEnterTupdate(r)
    \/ \E r \in Busy("pg") : PgCommit(r)
    \/ \E r \in Busy("pg") : PgFail(r)
    \/ \E r \in Slots("pg"), t \in Tourns, ans \in Options : PgResolveStatus(r, t, ans)
    \/ \E r \in Busy("pg") : PgResolveWinners(r)
    \/ \E r \in Busy("pg"), u \in Users : PgResolvePay(r, u)
    \/ \E r \in Busy("pg") : PgDeadlock(r)
    \/ \E r \in Slots("pg"), u \in Users : PgClaimRead(r, u)
    \/ \E r \in Busy("pg") : PgClaimUpdate(r)
    \/ \E t \in AdminCalls("pg"), fee \in UpdFees, max \in UpdMax : PgUpdateEvent(t, fee, max, Unset)
    \/ \E r \in Slots("sqlite"), u \in Users, t \in Tourns \cup {Absent}, p \in Options :
          \E fails \in BOOLEAN : SqEnterBegin(r, u, t, p, fails)
    \/ \E r \in Busy("sqlite"), fails \in BOOLEAN : SqEnterLookup(r, fails)
    \/ \E r \in Busy("sqlite"), fails \in BOOLEAN : SqEnterExisting(r, fails)
    \/ \E r \in Busy("sqlite"), fails \in BOOLEAN : SqEnterDebit(r, fails)
    \/ \E r \in Busy("sqlite"), fails \in BOOLEAN : SqEnterInsert(r, fails)
    \/ \E r \in Busy("sqlite") : SqEnterTupdate(r)
    \/ \E r \in Slots("sqlite"), t \in Tourns, ans \in Options, fails \in BOOLEAN :
          SqResolveBegin(r, t, ans, fails)
    \/ \E r \in Busy("sqlite"), fails \in BOOLEAN : SqResolveStatus(r, fails)
    \/ \E r \in Busy("sqlite"), failing \in SUBSET Users : SqResolveWinners(r, failing)
    \/ \E r \in Busy("sqlite") : SqResolvePaid(r)
    \/ \E t \in AdminCalls("sqlite") : SqStartTournament(t)
    \/ \E r \in Reqs : SweepStart(r)
    \/ \E r \in Reqs : SweepClose(r)
    \/ \E u \in Users : Register(u)
    \/ Tick

Spec == Init /\ [][Next]_vars

(* The sweep as the scheduler runs it: every minute, without end.  A step of *)
(* a request in flight is a callback or a continuation on node's event loop, *)
(* which runs every one that is ready.                                       *)

\* the next step of the request in slot r
ReqStep(r) ==
    \/ PgEnterExisting(r) \/ PgEnterDebit(r) \/ PgEnterInsert(r) \/ PgEnterTupdate(r)
    \/ PgCommit(r) \/ PgFail(r) \/ PgResolveWinners(r) \/ PgDeadlock(r)
    \/ \E u \in Users : PgResolvePay(r, u)
    \/ PgClaimUpdate(r)
    \/ \E fails \in BOOLEAN :
          \/ SqEnterLookup(r, fails) \/ SqEnterExisting(r, fails)
          \/ SqEnterDebit(r, fails) \/ SqEnterInsert(r, fails)
          \/ SqResolveStatus(r, fails)
    \/ SqEnterTupdate(r) \/ SqResolvePaid(r)
    \/ \E failing \in SUBSET Users : SqResolveWinners(r, failing)

FairNext ==
    \/ Next
    \/ \E r \in Reqs : CronSweep(r)

FairSpec ==
    /\ Init /\ [][FairNext]_vars
    /\ WF_vars(\E r \in Reqs : CronSweep(r))
    /\ \A r \in Reqs : WF_vars(SweepClose(r))
    /\ \A r \in Reqs : WF_vars(ReqStep(r))

(* The listing reads the tournaments' status and options and writes nothing. *)
(* It runs here together with the operations that change what it reads:       *)
(* the sweep, the manual start, Resolve and the administrative update.       *)

ListInit == Init /\ nreq = 0

ListNext ==
    \/ \E page \in Pages, size \in PageSizes : GetTournaments(page, size)
    \/ \E t \in Tourns, opts \in UpdOptions : PgUpdateEvent(t, NULL, NULL, opts)
    \/ \E r \in Reqs, t \in Tourns, ans \in Options : PgResolveStatus(r, t, ans)
    \/ \E r \in Reqs : PgResolveWinners(r)
    \/ \E r \in Reqs, u \in Users : PgResolvePay(r, u)
    \/ \E r \in Reqs : PgCommit(r)
    \/ \E r \in Reqs : PgFail(r)
    \/ \E r \in Reqs, t \in Tourns, ans \in Options, fails \in BOOLEAN :
          SqResolveBegin(r, t, ans, fails)
    \/ \E r \in Reqs, fails \in BOOLEAN : SqResolveStatus(r, fails)
    \/ \E r \in Reqs, failing \in SUBSET Users : SqResolveWinners(r, failing)
    \/ \E r \in Reqs : SqResolvePaid(r)
    \/ \E t \in Tourns : SqStartTournament(t)
    \/ \E r \in Reqs : SweepStart(r)
    \/ \E r \in Reqs : SweepClose(r)
    \/ Tick

ListSpec == ListInit /\ [][ListNext]_vars

(* The connection of a pooled client can be lost while its transaction is   *)
(* open: the statement in progress throws, and so does the ROLLBACK that the *)
(* catch block issues on the same client.                                    *)

LossNext ==
    \/ Next
    \/ \E r \in Reqs, exits \in BOOLEAN : PgRollbackFails(r, exits)

LossSpec == Init /\ [][LossNext]_vars

(* Enter and Resolve take the label from the request body (prediction,      *)
(* correct_answer), which may be any text.  Here they run with a label that  *)
(* no tournament has among its options next to the labels the tournaments    *)
(* have.                                                                     *)

\* the labels a request body may carry: the options and a text that is none
Labels == Options \cup {"C"}

LabelInit == Init /\ nreq = 0

LabelNext ==
    \/ \E r \in Reqs, u \in Users, t \in Tourns, p \in Labels : PgEnterLookup(r, u, t, p)
    \/ \E r \in Reqs : PgEnterExisting(r)
    \/ \E r \in Reqs : PgEnterDebit(r)
    \/ \E r \in Reqs : PgEnterInsert(r)
    \/ \E r \in Reqs : PgEnterTupdate(r)
    \/ \E r \in Reqs : PgCommit(r)
    \/ \E r \in Reqs : PgFail(r)
    \/ \E r \in Reqs, t \in Tourns, ans \in Labels : PgResolveStatus(r, t, ans)
    \/ \E r \in Reqs : PgResolveWinners(r)
    \/ \E r \in Reqs, u \in Users : PgResolvePay(r, u)
    \/ \E r \in Reqs, u \in Users, t \in Tourns, p \in Labels :
          \E fails \in BOOLEAN : SqEnterBegin(r, u, t, p, fails)
    \/ \E r \in Reqs, fails \in BOOLEAN : SqEnterLookup(r, fails)
    \/ \E r \in Reqs, fails \in BOOLEAN : SqEnterExisting(r, fails)
    \/ \E r \in Reqs, fails \in BOOLEAN : SqEnterDebit(r, fails)
    \/ \E r \in Reqs, fails \in BOOLEAN : SqEnterInsert(r, fails)
    \/ \E r \in Reqs : SqEnterTupdate(r)
    \/ \E r \in Reqs, t \in Tourns, ans \in Labels, fails \in BOOLEAN :
          SqResolveBegin(r, t, ans, fails)
    \/ \E r \in Reqs, fails \in BOOLEAN : SqResolveStatus(r, fails)
    \/ \E r \in Reqs, failing \in SUBSET Users : SqResolveWinners(r, failing)
    \/ \E r \in Reqs : SqResolvePaid(r)

LabelSpec == LabelInit /\ [][LabelNext]_vars

(* ----------------------------- properties ----------------------------- *)
(* Committed state is RollbackImage: the database itself, or, while the    *)
(* SQLite build has a transaction open, the image that transaction began   *)
(* with.                                                                   *)

NotActive == "Tournament not found or not active"

\* C1: every user's points balance is non-negative in every committed state,
\* also when one user sends Enter for two tournaments at the same time.
C1_PointsNonNegative ==
    \A u \in Users : RollbackImage.users[u].points >= 0

\* C2: for every tournament and user there is at most one participants row,
\* also when the same user sends Enter for the same tournament twice at once.
C2_OneParticipation ==
    \A t \in Tourns, u \in Users : ExistingRows(RollbackImage, t, u) <= 1

\* C3: an Enter that saw exactly one free seat and succeeds (the capacity not
\* rewritten meanwhile, no user holding two rows) leaves the tournament with
\* no more rows than seats: of two users racing for the last seat one succeeds.
C3_LastSeatOnce ==
    (/\ out.op = "enter" /\ out.res = "ok" /\ out.free = 1
     /\ RollbackImage.tourn[out.t].max = out.cap
     /\ \A u \in Users : ExistingRows(RollbackImage, out.t, u) <= 1)
    => RowsOf(RollbackImage, out.t) <= out.cap

\* C4: in every committed state the counter current_participants of every
\* tournament equals the number of its participants rows.
C4_CountMatchesRows ==
    \A t \in Tourns : RollbackImage.tourn[t].cnt = RowsOf(RollbackImage, t)

\* C4 witness: an Enter has just succeeded into a tournament that now has one row.
C4_FirstEntry ==
    /\ out.op = "enter" /\ out.res = "ok"
    /\ RollbackImage.tourn[out.t].cnt = 1 /\ RowsOf(RollbackImage, out.t) = 1

\* C5: in every committed state current_participants of every tournament is at
\* most its max_participants, also after an administrative update of the row.
C5_WithinCapacity ==
    \A t \in Tourns : RollbackImage.tourn[t].cnt <= RollbackImage.tourn[t].max

\* C6: in every committed state prize_pool of every tournament equals the sum of
\* points_paid over its participants rows; when all N rows paid the same fee F
\* the pool is N * F.
C6_PoolIsSumPaid ==
    \A t \in Tourns :
       LET S == {x \in BagToSet(RollbackImage.parts) : x.t = t}
       IN /\ RollbackImage.tourn[t].pool = PaidInto(RollbackImage, t)
          /\ \A x \in S : (\A y \in S : y.paid = x.paid)
                => RollbackImage.tourn[t].pool = RowsOf(RollbackImage, t) * x.paid

\* C6 witness: the second of two users entering at the same fee has just succeeded.
C6_TwoEntries ==
    /\ out.op = "enter" /\ out.res = "ok" /\ out.amt > 0
    /\ RowsOf(RollbackImage, out.t) = 2
    /\ ExistingRows(RollbackImage, out.t, out.u) = 1
    /\ RollbackImage.tourn[out.t].pool = 2 * out.amt

\* C7: what settlement has credited to the winners of a tournament never
\* exceeds the prize pool the tournament collected, also when Resolve is
\* invoked for the tournament more than once.
C7_SettlementConserved ==
    \A t \in Tourns : RollbackImage.credited[t] <= RollbackImage.tourn[t].pool

\* C8: an Enter whose lookup found the tournament pending, closed or resolved
\* runs none of its writes, is answered with the not-active error, and the
\* committed state is the same before and after that answer.
C8_OnlyActiveEnters ==
    [][/\ \A r \in Reqs :
             (req'[r].op = "enter" /\ req'[r].seen # "active")
             => (req'[r].pc = "lookup" /\ req'[r].err = NotActive)
       /\ (out'.op = "enter" /\ out'.seen # "active")
          => (out'.res = NotActive /\ RollbackImage' = RollbackImage)]_vars

\* C8 witness: an Enter for a closed tournament has just been rejected.
C8_ClosedRejected ==
    /\ out.op = "enter" /\ out.seen = "closed" /\ out.res = NotActive
    /\ RowsOf(RollbackImage, out.t) = 0

\* C9: the commit of a successful Enter by u into t (Postgres build) lowers
\* u's points by exactly the fee, adds exactly one participants row (t, u,
\* prediction, fee), raises current_participants by 1 and prize_pool by the
\* fee, and changes no other user, tournament or row.
C9_EnterEffects ==
    [][(backend = "pg" /\ out'.op = "enter" /\ out'.res = "ok")
       => /\ db'.users = [db.users EXCEPT ![out'.u].points = @ - out'.amt]
          /\ db'.parts = db.parts (+)
                SetToBag({[t |-> out'.t, u |-> out'.u, p |-> out'.p, paid |-> out'.amt]})
          /\ db'.tourn = [db.tourn EXCEPT ![out'.t].cnt = @ + 1,
                                          ![out'.t].pool = @ + out'.amt]
          /\ db'.credited = db.credited]_vars

\* C9 witness: a user with 1000 points has entered a tournament at fee 100:
\* 900 points, pool 100, one participant.
C9_Entered100 ==
    /\ backend = "pg" /\ out.op = "enter" /\ out.res = "ok" /\ out.amt = 100
    /\ db.users[out.u].points = RegisterPoints - 100
    /\ db.tourn[out.t].pool = 100 /\ db.tourn[out.t].cnt = 1
    /\ ExistingRows(db, out.t, out.u) = 1

\* C10: Enter is all-or-nothing.  The answer to a failed Enter leaves the
\* committed state as it was, also when a statement failed after the debit or
\* the insert; the answer to a successful Enter commits the debit, the row,
\* the counter and the pool together; no other step of an Enter changes the
\* committed state.
C10_EnterAtomic ==
    [][/\ out'.op = "enter"
          => IF out'.res = "ok"
             THEN /\ RollbackImage'.users[out'.u].points
                        = RollbackImage.users[out'.u].points - out'.amt
                  /\ ExistingRows(RollbackImage', out'.t, out'.u)
                        = ExistingRows(RollbackImage, out'.t, out'.u) + 1
                  /\ RollbackImage'.tourn[out'.t].cnt
                        = RollbackImage.tourn[out'.t].cnt + 1
                  /\ RollbackImage'.tourn[out'.t].pool
                        = RollbackImage.tourn[out'.t].pool + out'.amt
             ELSE RollbackImage' = RollbackImage
       /\ \A r \in Reqs :
             (req'[r].op = "enter" /\ req'[r] # req[r])
             => RollbackImage' = RollbackImage]_vars

\* C10 witness: a statement of an Enter failed after the debit had run (Postgres:
\* a throw with one or two writes done; SQLite: the insert or the tournament
\* update reported an error) and the user still has the registration points
\* and no participants row.
C10_FailedAfterDebit ==
    /\ out.op = "enter"
    /\ \/ out.res = "storage failure" /\ out.w >= 1
       \/ out.res \in {"Failed to enter tournament", "Failed to update tournament"}
    /\ RollbackImage.users[out.u].points = RegisterPoints
    /\ ExistingRows(RollbackImage, out.t, out.u) = 0

\* the answers to an Enter one of whose statements failed
Failures ==
    {"storage failure", "deadlock detected", "Failed to deduct points",
     "Failed to enter tournament", "Failed to update tournament"}

C12_AtCapacityFull ==
    [][(out'.op = "enter" /\ out'.seen = "active" /\ out'.free = 0
        /\ out'.failed # "lookup")
       => (out'.res = "Tournament full" /\ RollbackImage' = RollbackImage)]_vars

\* C12 (amended): an Enter whose lookup finds the tournament active with
\* current_participants equal to max_participants fails and leaves the committed
\* state unchanged; it is answered "Tournament full" when the user's balance
\* covers the fee, and "Insufficient points" when it does not.
C12_AtCapacityFails ==
    [][(out'.op = "enter" /\ out'.seen = "active" /\ out'.free = 0
        /\ out'.failed # "lookup")
       => /\ out'.res = (IF out'.short THEN "Insufficient points" ELSE "Tournament full")
          /\ RollbackImage' = RollbackImage]_vars

\* C12 witness: a user with enough points has just been turned away from a
\* full tournament.
C12_TurnedAway ==
    /\ out.op = "enter" /\ out.seen = "active" /\ out.free = 0 /\ ~out.short
    /\ out.res = "Tournament full"
    /\ RollbackImage.tourn[out.t].cnt = RollbackImage.tourn[out.t].max

\* C13: the answer to an Enter (none of whose statements failed) is the error
\* of the first failing check in the order: tournament active, balance covers
\* the fee, seat free, no participants row yet.
C13_CheckOrder ==
    (out.op = "enter" /\ out.failed = "-")
    => IF out.seen # "active" THEN out.res = NotActive
       ELSE IF out.short THEN out.res = "Insufficient points"
       ELSE IF out.free <= 0 THEN out.res = "Tournament full"
       ELSE IF out.had THEN out.res = "Already participated"
       ELSE out.res \in {"ok", "Already participated"}

\* C13 witness: balance, capacity and participation checks all fail at once and
\* the answer is that of the balance check.
C13_ThreeFail ==
    /\ out.op = "enter" /\ out.seen = "active" /\ out.short /\ out.free <= 0 /\ out.had
    /\ out.res = "Insufficient points"

\* C14: the five failing conditions of Enter have five distinct answers; in
\* particular the answer given for a tournament that exists but is not active
\* is never given for a tournament that does not exist.
C14_DistinctErrors ==
    (out.op = "enter" /\ out.res = NotActive /\ out.failed = "-")
    => out.seen \in {"pending", "closed", "resolved"}

\* C15: a Resolve (Postgres build) that commits with w >= 1 winning
\* participants rows reports floor(prize_pool / w) and, per winning row, adds
\* exactly that amount to the row's user and 1 to the user's won_tournaments;
\* every other user's points and won_tournaments stay as they were.
C15_PrizeSplit ==
    [][(backend = "pg" /\ out'.op = "resolve" /\ out'.res = "ok")
       => LET rows == WinnerRows(db, out'.t, out'.p)
              w == SumOver(Users, rows)
          IN w >= 1
             => /\ out'.amt = db.tourn[out'.t].pool \div w
                /\ \A u \in Users :
                      /\ db'.users[u].points
                            = db.users[u].points + rows[u] * (db.tourn[out'.t].pool \div w)
                      /\ db'.users[u].won = db.users[u].won + rows[u]]_vars

\* C15 witness: a pool of 175 has been split between two winners, 87 each, one
\* point undistributed.
C15_Split175 ==
    /\ backend = "pg" /\ out.op = "resolve" /\ out.res = "ok" /\ out.amt = 87
    /\ db.tourn[out.t].pool = 175
    /\ db.users["u1"].points = RegisterPoints - 75 + 87
    /\ db.users["u2"].points = RegisterPoints - 100 + 87
    /\ db.users["u1"].won = 1 /\ db.users["u2"].won = 1

\* C16: a Resolve that commits with no participants row carrying the answer
\* leaves the tournament resolved with the answer recorded and changes no
\* user's points or won_tournaments.
C16_NoWinners ==
    [][(/\ out'.op = "resolve" /\ out'.res = "ok"
        /\ SumOver(Users, WinnerRows(RollbackImage', out'.t, out'.p)) = 0)
       => /\ RollbackImage'.tourn[out'.t].status = "resolved"
          /\ RollbackImage'.tourn[out'.t].ans = out'.p
          /\ \A u \in Users :
                RollbackImage.users[u].exists
                => /\ RollbackImage'.users[u].points = RollbackImage.users[u].points
                   /\ RollbackImage'.users[u].won = RollbackImage.users[u].won]_vars

\* C16 witness: a tournament with a pool and two participants has been
\* resolved with an answer nobody predicted; nothing was paid.
C16_Forfeited ==
    /\ out.op = "resolve" /\ out.res = "ok" /\ out.amt = 0
    /\ RowsOf(RollbackImage, out.t) = 2 /\ RollbackImage.tourn[out.t].pool > 0
    /\ RollbackImage.tourn[out.t].status = "resolved"
    /\ RollbackImage.tourn[out.t].ans = out.p
    /\ RollbackImage.credited[out.t] = 0

\* C17: Resolve is atomic: a Resolve answered with an error leaves the
\* committed state as it was, and a Resolve answered with success has
\* credited every winning row of the users it found.
C17_ResolveAtomic ==
    [][out'.op = "resolve"
       => IF out'.res = "ok"
          THEN \A u \in Users :
                  RollbackImage.users[u].exists
                  => RollbackImage'.users[u].points
                        = RollbackImage.users[u].points
                          + WinnerRows(RollbackImage', out'.t, out'.p)[u] * out'.amt
          ELSE RollbackImage' = RollbackImage]_vars

\* position of a status in the life cycle
Rank(st) ==
    CASE st = "pending" -> 0 [] st = "active" -> 1 [] st = "closed" -> 2
      [] st = "resolved" -> 3

\* C18: in committed state no tournament's status ever moves to an earlier
\* position of pending, active, closed, resolved.
C18_StatusForward ==
    [][\A t \in Tourns :
          Rank(RollbackImage'.tourn[t].status) >= Rank(RollbackImage.tourn[t].status)]_vars

\* C18 witness: after the end time the sweep has closed both tournaments and a
\* Resolve has resolved one of them.
C18_ClosedThenResolved ==
    /\ out.op = "resolve" /\ out.res = "ok" /\ now >= RollbackImage.tourn[out.t].end
    /\ RollbackImage.tourn[out.t].status = "resolved"
    /\ \E t \in Tourns \ {out.t} : RollbackImage.tourn[t].status = "closed"

\* C19: a tournament becomes resolved only from closed: no step takes a
\* pending or active tournament to resolved.
C19_ResolvedFromClosed ==
    [][\A t \in Tourns :
          (RollbackImage'.tourn[t].status = "resolved"
           /\ RollbackImage.tourn[t].status # "resolved")
          => RollbackImage.tourn[t].status = "closed"]_vars

\* C20: resolved is terminal: a resolved tournament stays resolved and keeps
\* its correct_answer.
C20_ResolvedTerminal ==
    [][\A t \in Tourns :
          RollbackImage.tourn[t].status = "resolved"
          => /\ RollbackImage'.tourn[t].status = "resolved"
             /\ RollbackImage'.tourn[t].ans = RollbackImage.tourn[t].ans]_vars

\* C21: the sweep is idempotent and tolerates overlap.  From every reachable
\* database and for every sweep time (the current time and the time of
\* every sweep in flight): a second run after a first, and two runs whose
\* statements interleave, leave the database one run leaves, and the
\* statements of the other run find no row to change once one run has
\* changed it.
C21_SweepIdempotent ==
    [](\A at \in {now} \cup {req[r].at : r \in {q \in Reqs : req[q].op = "sweep"}} :
        LET once == SweptOnce(db, at)
            s1 == SetStatus(db, SweepStartRows(db, at), "active")
            s2 == SetStatus(s1, SweepStartRows(s1, at), "active")
            c1 == SetStatus(s2, SweepCloseRows(s2, at), "closed")
            c2 == SetStatus(c1, SweepCloseRows(c1, at), "closed")
        IN /\ SweptOnce(once, at) = once
           /\ c2 = once
           /\ SweepStartRows(s1, at) = {} /\ SweepCloseRows(c1, at) = {}
           /\ SweepStartRows(once, at) = {} /\ SweepCloseRows(once, at) = {})

\* C21 witness: two runs of the sweep for the same time overlap, both have run
\* their start statement and a tournament is due to be closed.
C21_Overlapped ==
    /\ req["r1"].op = "sweep" /\ req["r2"].op = "sweep"
    /\ req["r1"].at = req["r2"].at
    /\ SweepCloseRows(db, req["r1"].at) # {}

\* C22: a tournament goes from pending to active only at a time at or after its
\* start_time, and from active to closed only at a time at or after its end_time.
C22_TransitionsOnTime ==
    [][\A t \in Tourns :
          /\ (db.tourn[t].status = "pending" /\ db'.tourn[t].status = "active")
             => db.tourn[t].start <= now
          /\ (db.tourn[t].status = "active" /\ db'.tourn[t].status = "closed")
             => db.tourn[t].end <= now]_vars

\* C23: with the sweep run again and again, every pending tournament whose
\* start_time has passed becomes active, and every active tournament whose
\* end_time has passed becomes closed.
C23_SweepEventually ==
    \A t \in Tourns :
        /\ (RollbackImage.tourn[t].status = "pending" /\ RollbackImage.tourn[t].start <= now)
           ~> (RollbackImage.tourn[t].status = "active")
        /\ (RollbackImage.tourn[t].status = "active" /\ RollbackImage.tourn[t].end <= now)
           ~> (RollbackImage.tourn[t].status = "closed")

\* C24: a free claim that arrives less than 24 hours after the user's
\* last_claim_date is answered "Cooldown active" and leaves the database as it
\* is (so of two claims one after the other the second adds nothing).
C24_CooldownRejects ==
    [][\A u \in Users :
          (/\ nreq' = nreq + 1
           /\ \/ out'.op = "claim" /\ out'.u = u
              \/ \E r \in Reqs : req[r].op = "none" /\ req'[r].op = "claim" /\ req'[r].u = u
           /\ db.users[u].lastClaim # NULL
           /\ now - db.users[u].lastClaim < cooldownHours)
          => (/\ out'.op = "claim" /\ out'.res = "Cooldown active"
              /\ req' = req /\ db' = db)]_vars

\* C24 witness: a user who has claimed once has just been refused a second claim.
C24_SecondClaimRefused ==
    /\ out.op = "claim" /\ out.res = "Cooldown active"
    /\ db.claims[out.u] = 1
    /\ db.users[out.u].points = RegisterPoints + pointsToAdd
    /\ db.users[out.u].lastClaim = now

\* C25: a free claim succeeds only for a user whose last_claim_date, at the
\* moment the award is written, is null or at least 24 hours old: of several
\* claims one user sends at once at most one succeeds.
C25_OneClaimPerWindow ==
    [][(out'.op = "claim" /\ out'.res = "ok")
       => ~(/\ db.users[out'.u].lastClaim # NULL
            /\ now - db.users[out'.u].lastClaim < cooldownHours)]_vars

\* C26: a free claim that arrives when the user's last_claim_date is null or at
\* least 24 hours old is not refused, and a claim that succeeds adds exactly
\* the award to that user's points, sets last_claim_date to the current time
\* and changes nothing else in the database.
C26_ClaimEffects ==
    [][/\ \A u \in Users, r \in Reqs :
            (/\ req[r].op = "none" /\ req'[r].op = "claim" /\ req'[r].u = u)
            => (/\ out' = NoOut /\ req'[r].pc = "update" /\ db' = db
                /\ \/ db.users[u].lastClaim = NULL
                   \/ now - db.users[u].lastClaim >= cooldownHours)
       /\ \A u \in Users :
            (/\ nreq' = nreq + 1 /\ out'.op = "claim" /\ out'.u = u)
            => (db.users[u].lastClaim # NULL
                /\ now - db.users[u].lastClaim < cooldownHours)
       /\ (out'.op = "claim" /\ out'.res = "ok")
          => db' = [db EXCEPT !.users[out'.u].points = @ + pointsToAdd,
                              !.users[out'.u].lastClaim = now,
                              !.claims[out'.u] = @ + 1]]_vars

\* C26 witness: a user's first claim has just succeeded.
C26_Claimed ==
    /\ out.op = "claim" /\ out.res = "ok"
    /\ db.claims[out.u] = 1
    /\ db.users[out.u].points = RegisterPoints + pointsToAdd
    /\ db.users[out.u].lastClaim = now

\* C27: an Enter one of whose statements reported an error is answered with a
\* storage failure, an answer none of the precondition checks gives, and
\* leaves the committed state unchanged.
C27_StorageFailureDistinct ==
    [][(out'.op = "enter" /\ out'.failed # "-")
       => (out'.res \in Failures /\ RollbackImage' = RollbackImage)]_vars

C29_Ledger ==
    [](\A u \in Users :
        RollbackImage.users[u].exists
        => RollbackImage.users[u].points
           = RegisterPoints + pointsToAdd * RollbackImage.claims[u]
             - PaidBy(RollbackImage, u) + RollbackImage.got[u])

\* C29 witness: a user has entered, has claimed and has been credited a prize.
C29_AllThree ==
    \E u \in Users :
        /\ RollbackImage.claims[u] >= 1 /\ RollbackImage.got[u] > 0
        /\ PaidBy(RollbackImage, u) > 0

\* C30: the ROLLBACK of a failing Enter or Resolve discards no write of another
\* request: no user registered meanwhile disappears and no other tournament
\* changes.
C30_RollbackKeepsOthers ==
    [][(out'.op \in {"enter", "resolve"} /\ out'.res # "ok")
       => /\ \A u \in Users : db.users[u].exists => db'.users[u].exists
          /\ \A t \in Tourns \ {out'.t} : db'.tourn[t] = db.tourn[t]]_vars

\* the ways a step ends requests without answering them
Unanswered == {"none", "process exit", "unhandled rejection"}

\* C31: every Enter, free claim and Resolve ends with a response: the step in
\* which a request in flight leaves its handler sends the response to that
\* request, also when a statement of its transaction fails and when the
\* ROLLBACK fails after it.
C31_EveryRequestAnswered ==
    [][\A r \in Reqs :
          (req[r].op \in {"enter", "resolve", "claim"} /\ req'[r].op = "none")
          => (out'.op = req[r].op /\ out'.res \notin Unanswered)]_vars

\* C32: participants rows are immutable: every row of the committed
\* participants table (tournament, user, prediction, points_paid) is still
\* there, as many times, after every step of Enter, Resolve, free claim, sweep
\* and administrative update.
C32_ParticipationsKept ==
    [][\A x \in BagToSet(RollbackImage.parts) :
          CopiesIn(x, RollbackImage'.parts) >= CopiesIn(x, RollbackImage.parts)]_vars

\* C32 witness: the row an Enter created with prediction "B" at fee 600 is
\* there unchanged after the tournament has been resolved and the prize paid.
C32_RowOutlivesResolve ==
    /\ out.op = "resolve" /\ out.res = "ok" /\ out.t = "t2" /\ out.amt = 600
    /\ CopiesIn(Row("t2", "u1", "B", 600), RollbackImage.parts) = 1
    /\ RollbackImage.tourn["t2"].status = "resolved"

\* C33: once a tournament is closed or resolved in committed state, its
\* participants rows, its current_participants and its prize_pool never change
\* again, also when an Enter that read status active is still in flight while
\* the sweep closes the tournament or a Resolve commits.
C33_ClosedFrozen ==
    [][\A t \in Tourns :
          RollbackImage.tourn[t].status \in {"closed", "resolved"}
          => /\ \A x \in BagToSet(RollbackImage.parts) \cup BagToSet(RollbackImage'.parts) :
                   x.t = t => CopiesIn(x, RollbackImage'.parts) = CopiesIn(x, RollbackImage.parts)
             /\ RollbackImage'.tourn[t].cnt = RollbackImage.tourn[t].cnt
             /\ RollbackImage'.tourn[t].pool = RollbackImage.tourn[t].pool]_vars

\* C34: no Enter succeeds at or after the end_time of its tournament: the
\* response to a successful Enter leaves the server while now < end_time,
\* also between end_time passing and the next run of the sweep.
C34_NoEnterAfterEnd ==
    (out.op = "enter" /\ out.res = "ok") => now < RollbackImage.tourn[out.t].end

\* C35: for every successful Enter the amount taken from the user, the
\* points_paid of the row it adds and the amount added to prize_pool are one
\* value, also when an administrative update changes entry_fee while the
\* Enter is in flight.
C35_OneAmount ==
    [][(out'.op = "enter" /\ out'.res = "ok")
       => LET v == RollbackImage.users[out'.u].points - RollbackImage'.users[out'.u].points
              x == Row(out'.t, out'.u, out'.p, v)
          IN /\ CopiesIn(x, RollbackImage'.parts) = CopiesIn(x, RollbackImage.parts) + 1
             /\ RowsOf(RollbackImage', out'.t) = RowsOf(RollbackImage, out'.t) + 1
             /\ RollbackImage'.tourn[out'.t].pool = RollbackImage.tourn[out'.t].pool + v]_vars

\* C35 witness: an Enter that read the fee 600 has succeeded after an
\* administrative update set the fee to 100: 600 debited, paid and pooled.
C35_FeeChangedInFlight ==
    /\ out.op = "enter" /\ out.res = "ok"
    /\ db.tourn[out.t].fee = 100 /\ db.tourn[out.t].pool = 600
    /\ db.users[out.u].points = RegisterPoints - 600
    /\ CopiesIn(Row(out.t, out.u, out.p, 600), db.parts) = 1

\* the option labels of tournament t in database d
OptionsOf(d, t) ==
    LET l == JSONparse(d.tourn[t].options) IN {l[i] : i \in 1..Len(l)}

\* C36: in committed state the prediction of every participants row is one of
\* the option labels of its tournament, and the correct_answer of every
\* resolved tournament is one of its option labels: an Enter or a Resolve
\* with a label outside the options creates no row and resolves nothing.
C36_LabelsAreOptions ==
    /\ \A x \in BagToSet(RollbackImage.parts) : x.p \in OptionsOf(RollbackImage, x.t)
    /\ \A t \in Tourns :
          RollbackImage.tourn[t].status = "resolved"
          => RollbackImage.tourn[t].ans \in OptionsOf(RollbackImage, t)

\* C37: every Enter and Resolve of the Postgres build that ends (the process
\* still running) has released its pooled client exactly once, on the success
\* path, on a failing precondition, on the no-winner return and on a storage
\* failure.
C37_ClientReleasedOnce ==
    [][backend = "pg"
       => /\ out'.op \in {"enter", "resolve"} => out'.rel = 1
          /\ \A r \in Reqs :
                (/\ req[r].op \in {"enter", "resolve"} /\ req'[r].op = "none"
                 /\ out'.res # "process exit")
                => out'.rel = 1]_vars

\* C38: a statement of the sweep changes nothing but the status of
\* tournaments: users, participants rows and every tournament's prize_pool,
\* current_participants and correct_answer stay as they are, and the status of
\* a closed or resolved tournament is not changed.
C38_SweepOnlyStatus ==
    [][(/\ out'.res # "process exit"
        /\ \E r \in Reqs : \/ (req[r].op = "none" /\ req'[r].op = "sweep")
                            \/ (req[r].op = "sweep" /\ req'[r].op = "none"))
       => /\ db' = [db EXCEPT !.tourn = [t \in Tourns |->
                                           [@[t] EXCEPT !.status = db'.tourn[t].status]]]
          /\ \A t \in Tourns :
                db.tourn[t].status \in {"closed", "resolved"}
                => db'.tourn[t].status = db.tourn[t].status]_vars

\* C38 witness: the sweep has closed a tournament that holds two participants
\* rows and their fees in its pool, next to a resolved one it left alone.
C38_ClosedWithPool ==
    \E t \in Tourns :
        /\ db.tourn[t].status = "closed" /\ db.tourn[t].cnt = 2
        /\ RowsOf(db, t) = 2 /\ db.tourn[t].pool = PaidInto(db, t)
        /\ \E t2 \in Tourns \ {t} : db.tourn[t2].status = "resolved"

\* C39: a step of a Resolve(t, answer) that is not an error response changes
\* nothing but the status and correct_answer of t and the points and
\* won_tournaments of users holding a participants row of t with the answer:
\* prize_pool and current_participants of t, every participants row, every
\* other tournament and every user without such a row stay as they are.
C39_ResolveFrame ==
    [][\A r \in Reqs :
          (/\ out'.res \in {"none", "ok"}
           /\ \/ (req[r].op = "none" /\ req'[r].op = "resolve")
              \/ (req[r].op = "resolve" /\ req'[r] # req[r]))
          => LET q == IF req[r].op = "resolve" THEN req[r] ELSE req'[r]
             IN /\ db'.parts = db.parts
                /\ db'.claims = db.claims
                /\ db'.tourn = [db.tourn EXCEPT ![q.t].status = db'.tourn[q.t].status,
                                                ![q.t].ans = db'.tourn[q.t].ans]
                /\ db'.tourn[q.t].status \in {db.tourn[q.t].status, "resolved"}
                /\ \A u \in Users :
                      /\ db'.users[u] = [db.users[u] EXCEPT !.points = db'.users[u].points,
                                                            !.won = db'.users[u].won]
                      /\ WinnerRows(db, q.t, q.p)[u] = 0 => db'.users[u] = db.users[u]]_vars

\* C39 witness: a tournament with one participant has been resolved in that
\* participant's favour: the pool of 600 and the counter are as before, the
\* other tournament is still active and the other registered user, who holds
\* no row, has the registration balance.
C39_OnlyWinnerPaid ==
    /\ out.op = "resolve" /\ out.res = "ok" /\ out.amt = 600
    /\ db.tourn[out.t].status = "resolved" /\ db.tourn[out.t].ans = out.p
    /\ db.tourn[out.t].pool = 600 /\ db.tourn[out.t].cnt = 1
    /\ \A t \in Tourns \ {out.t} : db.tourn[t].status = "active" /\ db.tourn[t].pool = 0
    /\ \E u, v \in Users :
          /\ db.users[u].won = 1 /\ db.users[u].points = RegisterPoints
          /\ ExistingRows(db, out.t, u) = 1
          /\ db.users[v].exists /\ db.users[v].won = 0
          /\ db.users[v].points = RegisterPoints /\ PaidBy(db, v) = 0

====
